---- MODULE Spec2Model ----
(***************************************************************************)
(* PUFZIN: PUF-based device authentication behind a zero-knowledge proof.  *)
(* The module models the on-chain DeviceRegistry (contracts/               *)
(* DeviceRegistry.sol), the DeviceAuth circuit and the proof generator     *)
(* that feeds it (circuits/templates/DeviceAuth.circom,                    *)
(* scripts/generate-proof.js), and the verifier the registry consults.     *)
(***************************************************************************)
EXTENDS Integers, Sequences, FiniteSets, TLC

(***************************************************************************)
(* Bounds of the model.                                                    *)
(***************************************************************************)
\* The scalar field modulus p, scaled down.  As in the program, p is smaller
\* than the largest word (bytes32 / uint256) a caller can pass.
FieldP == 3
\* Largest ledger timestamp (block.timestamp) the model reaches.
MaxTime == 1
\* Largest number of events the ledger records.
MaxEvents == 2
\* Width of the Num2Bits range checks (254 bits in the circuit), scaled with
\* the modulus: 2^(RangeBits - 1) < FieldP < 2^RangeBits.
RangeBits == 2
\* Random bytes drawn for a challenge (31 in the simulator), scaled with the
\* modulus and counted in bits: 2^ChallengeBytes <= FieldP.
ChallengeBytes == 1
\* Widest response, in bits, that noise is added to.
NoiseBits == 4
\* Noise levels are the fractions 0/NoiseScale .. NoiseScale/NoiseScale.
NoiseScale == 4
\* Largest reading of the wall clock (Date.now()) the model reaches.
MaxClock == 2
\* Largest number of iterations of the experiment loop.
MaxRuns == 2
\* The cache timeout (300000 ms in the program), in clock readings.
Timeout == 1

(***************************************************************************)
(* Value domains.                                                          *)
(***************************************************************************)
\* The field elements.  A bytes32 / uint256 word may also lie beyond them.
FieldElems == 0..(FieldP - 1)
\* bytes32 device ids: the zero id, two ids inside the field, one outside it.
DeviceIds == {0, 1, 2, FieldP}
\* Opaque payloads: the zero value and sample non-zero values.
PubKeyHashes == {0, 1}
HelperDatas == {1}
DataHashes == {0, 1}
EncryptedDatas == {1}
\* The challenge and the PUF responses a prover works with.
Challenges == {1}
Responses == {1}
Accounts == {"acct0", "acct1"}
ZeroAddress == "0x0"
\* crypto.randomBytes(n) read as an unsigned integer.
RandomBytes(n) == 0..(2^n - 1)
\* The seeds a simulator may be constructed with, as byte strings.
Seeds == {<<"0">>, <<"1">>}
\* The device ids the simulator is asked about: one inside the field and one
\* outside it.
PufDeviceIds == {1, FieldP}

VARIABLES
    devices,        \* mapping(bytes32 => Device)
    transactions,   \* mapping(bytes32 => EncryptedTransaction[])
    totalDevices,   \* uint256 public totalDevices
    events,         \* the ledger's event log, in commit order
    now,            \* block.timestamp of the block being built
    paused,         \* Pausable's flag, which whenNotPaused reads
    call,           \* the call that was made and is not yet executed
    last,           \* outcome of the call just executed, as its caller sees it
    seed,           \* PUFSimulator.seed
    responseMap,    \* PUFSimulator.responseMap
    poseidon,       \* PUFSimulator.poseidon: built or still null
    cache,          \* ProofCache.cache
    clock,          \* Date.now()
    run,            \* the client-side operation in progress and its result
    files,          \* the files of circuits/build that generateProof uses
    gen             \* the generateProof calls in flight

vars == <<devices, transactions, totalDevices, events, now, paused, call,
          last, seed, responseMap, poseidon, cache, clock, run, files, gen>>

\* The state of the PUF simulator.
simulator == <<seed, responseMap, poseidon>>

\* The state of the clients of the registry: the proof cache and its clock,
\* the operation in progress, and the prover's files and calls.
clients == <<cache, clock, run, files, gen>>

(***************************************************************************)
(* Calls to the registry and what their callers see of them.               *)
(***************************************************************************)
\* No transaction is waiting.
NoCall == [op |-> "none"]

\* What the caller of a call sees once it was executed: whether it reverted,
\* why, and the value it returned.  NoResult while a call is waiting.
NoResult == [op |-> "none", status |-> "ok", reason |-> "", ret |-> FALSE]
Reverted(op, reason) ==
    [op |-> op, status |-> "reverted", reason |-> reason, ret |-> FALSE]
Returned(op, value) ==
    [op |-> op, status |-> "ok", reason |-> "", ret |-> value]

\* No client-side operation is in progress.
Idle == [op |-> "none"]

\* The build directory before any generateProof call wrote to it.
NoFiles == <<>>

(***************************************************************************)
(* The commitment hash and the proof gate.                                 *)
(***************************************************************************)
\* Poseidon(2): a two-input hash into the field.  The stand-in is injective
\* in its first input and is not symmetric in its inputs.
Poseidon(a, b) == ((a % FieldP) + 2 * (b % FieldP) + 1) % FieldP

\* Num2Bits(n): satisfiable exactly when the signal has an n-bit
\* decomposition.
Num2Bits(n, in) == in < 2^n

\* The DeviceAuth circuit on a witness, whose signals are field elements: the
\* three range checks and the hash constraint.
CircuitSatisfied(deviceId, challenge, response, expectedHash) ==
    /\ deviceId \in FieldElems /\ Num2Bits(RangeBits, deviceId)
    /\ challenge \in FieldElems /\ Num2Bits(RangeBits, challenge)
    /\ response \in FieldElems /\ Num2Bits(RangeBits, response)
    /\ Poseidon(response, challenge) = expectedHash

\* A G2 coordinate of pi_b is a pair of coefficients: snarkjs writes it as
\* [c0, c1], the verifier contract reads it as [c1, c0].
SnarkjsOrder == <<"c0", "c1">>
ContractOrder == <<"c1", "c0">>

\* generateProof that returns the public signals of this run next to a proof
\* file left by a run for another commitment.
GenerateProofStaleProof(inputs) ==
    LET d == inputs.deviceId % FieldP
        c == inputs.challenge % FieldP
        h == inputs.expectedHash % FieldP
        r == inputs.response % FieldP
    IN  IF CircuitSatisfied(d, c, r, h)
        THEN [success |-> TRUE,
              proof |-> [stmt |-> <<d, c, (h + 1) % FieldP>>,
                         pi_b |-> SnarkjsOrder],
              publicSignals |-> <<d, c, h>>]
        ELSE [success |-> FALSE,
              proof |-> [stmt |-> <<>>, pi_b |-> <<>>],
              publicSignals |-> <<>>]

\* ProofGenerator.generateProof: the witness calculator reduces every input
\* modulo p; the prover returns a proof and the public signals
\* [deviceId, challenge, expectedHash], or the failure is caught and reported.
GenerateProof(inputs) ==
    LET d == inputs.deviceId % FieldP
        c == inputs.challenge % FieldP
        h == inputs.expectedHash % FieldP
        r == inputs.response % FieldP
    IN  IF CircuitSatisfied(d, c, r, h)
        THEN [success |-> TRUE,
              proof |-> [stmt |-> <<d, c, h>>, pi_b |-> SnarkjsOrder],
              publicSignals |-> <<d, c, h>>]
        ELSE [success |-> FALSE,
              proof |-> [stmt |-> <<>>, pi_b |-> <<>>],
              publicSignals |-> <<>>]

\* The proof as the tests pass it to the registry: pi_a and pi_c as they
\* are, the coefficients of each pi_b coordinate swapped.
proofForContract(proof) ==
    [stmt |-> proof.stmt, pi_b |-> <<proof.pi_b[2], proof.pi_b[1]>>]

\* A proof that no prover run produced.
ForgedProof == [stmt |-> <<>>, pi_b |-> ContractOrder]

\* The commitments a caller works with: the hash of a response and its
\* challenge, and for each a field element that is not that hash.
Commitments ==
    UNION {{Poseidon(r, c), (Poseidon(r, c) + 1) % FieldP} :
               r \in Responses, c \in Challenges}

\* The inputs a prover may hand to generateProof.
CircuitInputs ==
    [deviceId : DeviceIds, challenge : Challenges,
     response : Responses, expectedHash : Commitments]

\* Every proof artifact a caller can hold.
Proofs ==
    {ForgedProof} \cup
    {proofForContract(GenerateProof(i).proof) :
         i \in {j \in CircuitInputs : GenerateProof(j).success}}

\* The public-input vectors a caller passes to the registry.
PublicInputs == {<<d, c, h>> : d \in DeviceIds, c \in Challenges, h \in Commitments}

\* Groth16Verifier.verifyProof: false for a public input outside the field,
\* otherwise true exactly for the proof of that very statement, its points
\* encoded as the contract reads them.
VerifyProof(proof, input) ==
    /\ \A i \in 1..3 : input[i] < FieldP
    /\ proof.pi_b = ContractOrder
    /\ proof.stmt = input

\* snarkjs.groth16.verify on the proof as generateProof returned it.
groth16Verify(publicSignals, proof) ==
    /\ \A i \in 1..3 : publicSignals[i] < FieldP
    /\ proof.pi_b = SnarkjsOrder
    /\ proof.stmt = publicSignals

(***************************************************************************)
(* The registry.                                                           *)
(***************************************************************************)
\* The value every storage slot of the devices mapping holds before a write.
ZeroDevice ==
    [deviceId |-> 0, pubKeyHash |-> 0, helperData |-> 0,
     registeredAt |-> 0, isActive |-> FALSE, owner |-> ZeroAddress]

Init ==
    /\ devices = [d \in DeviceIds |-> ZeroDevice]
    /\ transactions = [d \in DeviceIds |-> <<>>]
    /\ totalDevices = 0
    /\ events = <<>>
    /\ now = 0
    /\ paused = FALSE
    /\ call = NoCall
    /\ last = NoResult
    /\ seed = <<>>
    /\ responseMap = <<>>
    /\ poseidon = FALSE
    /\ cache = <<>>
    /\ clock = 0
    /\ run = Idle
    /\ files = NoFiles
    /\ gen = <<>>

\* require(cond, reason) failing: the call reverts, and storage and the event
\* log stay as they were.
Revert(op, reason) ==
    /\ last' = Reverted(op, reason)
    /\ UNCHANGED <<devices, transactions, totalDevices, events, paused>>

isDeviceRegistered(deviceId) == devices[deviceId].registeredAt # 0
isDeviceActive(deviceId) == devices[deviceId].isActive
getTransactionCount(deviceId) == Len(transactions[deviceId])

\* registerDevice with the zero checks ahead of the registration check.
registerDeviceZeroFirst(sender, deviceId, pubKeyHash, helperData) ==
    IF deviceId = 0
    THEN Revert("registerDevice", "Invalid device ID")
    ELSE IF pubKeyHash = 0
    THEN Revert("registerDevice", "Invalid public key hash")
    ELSE IF devices[deviceId].registeredAt # 0
    THEN Revert("registerDevice", "Device already registered")
    ELSE /\ devices' = [devices EXCEPT ![deviceId] =
                [deviceId |-> deviceId, pubKeyHash |-> pubKeyHash,
                 helperData |-> helperData, registeredAt |-> now,
                 isActive |-> TRUE, owner |-> sender]]
         /\ totalDevices' = totalDevices + 1
         /\ events' = Append(events,
                <<"DeviceRegistered", deviceId, now>>)
         /\ last' = Returned("registerDevice", TRUE)
         /\ UNCHANGED <<transactions, paused>>

\* registerDevice that leaves isActive at its default.
registerDeviceInactive(sender, deviceId, pubKeyHash, helperData) ==
    IF devices[deviceId].registeredAt # 0
    THEN Revert("registerDevice", "Device already registered")
    ELSE IF deviceId = 0
    THEN Revert("registerDevice", "Invalid device ID")
    ELSE IF pubKeyHash = 0
    THEN Revert("registerDevice", "Invalid public key hash")
    ELSE /\ devices' = [devices EXCEPT ![deviceId] =
                [deviceId |-> deviceId, pubKeyHash |-> pubKeyHash,
                 helperData |-> helperData, registeredAt |-> now,
                 isActive |-> FALSE, owner |-> sender]]
         /\ totalDevices' = totalDevices + 1
         /\ events' = Append(events,
                <<"DeviceRegistered", deviceId, now>>)
         /\ last' = Returned("registerDevice", TRUE)
         /\ UNCHANGED <<transactions, paused>>

\* registerDevice that pauses the registry once it has registered a device.
registerDevicePausing(sender, deviceId, pubKeyHash, helperData) ==
    IF paused
    THEN Revert("registerDevice", "Pausable: paused")
    ELSE IF devices[deviceId].registeredAt # 0
    THEN Revert("registerDevice", "Device already registered")
    ELSE IF deviceId = 0
    THEN Revert("registerDevice", "Invalid device ID")
    ELSE IF pubKeyHash = 0
    THEN Revert("registerDevice", "Invalid public key hash")
    ELSE /\ devices' = [devices EXCEPT ![deviceId] =
                [deviceId |-> deviceId, pubKeyHash |-> pubKeyHash,
                 helperData |-> helperData, registeredAt |-> now,
                 isActive |-> TRUE, owner |-> sender]]
         /\ totalDevices' = totalDevices + 1
         /\ events' = Append(events,
                <<"DeviceRegistered", deviceId, now>>)
         /\ last' = Returned("registerDevice", TRUE)
         /\ paused' = TRUE
         /\ UNCHANGED transactions

\* The whenNotPaused modifier comes before the body of the function.
registerDevice(sender, deviceId, pubKeyHash, helperData) ==
    IF paused
    THEN Revert("registerDevice", "Pausable: paused")
    ELSE IF devices[deviceId].registeredAt # 0
    THEN Revert("registerDevice", "Device already registered")
    ELSE IF deviceId = 0
    THEN Revert("registerDevice", "Invalid device ID")
    ELSE IF pubKeyHash = 0
    THEN Revert("registerDevice", "Invalid public key hash")
    ELSE /\ devices' = [devices EXCEPT ![deviceId] =
                [deviceId |-> deviceId, pubKeyHash |-> pubKeyHash,
                 helperData |-> helperData, registeredAt |-> now,
                 isActive |-> TRUE, owner |-> sender]]
         /\ totalDevices' = totalDevices + 1
         /\ events' = Append(events,
                <<"DeviceRegistered", deviceId, now>>)
         /\ last' = Returned("registerDevice", TRUE)
         /\ UNCHANGED <<transactions, paused>>

\* authenticate with recordTransaction's hard gate on the proof.
authenticateStrict(deviceId, proof, input) ==
    IF ~devices[deviceId].isActive
    THEN Revert("authenticate", "Device not active")
    ELSE IF input[1] # deviceId
    THEN Revert("authenticate", "Device ID mismatch")
    ELSE IF ~VerifyProof(proof, input)
    THEN Revert("authenticate", "Invalid proof")
    ELSE /\ events' = Append(events,
                <<"AuthenticationAttempt", deviceId, TRUE>>)
         /\ last' = Returned("authenticate", TRUE)
         /\ UNCHANGED <<devices, transactions, totalDevices, paused>>

\* authenticate without the isActive requirement.
authenticateAnyDevice(deviceId, proof, input) ==
    IF input[1] # deviceId
    THEN Revert("authenticate", "Device ID mismatch")
    ELSE LET isValid == VerifyProof(proof, input)
         IN  /\ events' = Append(events,
                    <<"AuthenticationAttempt", deviceId, isValid>>)
             /\ last' = Returned("authenticate", isValid)
             /\ UNCHANGED <<devices, transactions, totalDevices, paused>>

\* authenticate without the comparison of input[0] with the device id.
authenticateUnbound(deviceId, proof, input) ==
    IF ~devices[deviceId].isActive
    THEN Revert("authenticate", "Device not active")
    ELSE LET isValid == VerifyProof(proof, input)
         IN  /\ events' = Append(events,
                    <<"AuthenticationAttempt", deviceId, isValid>>)
             /\ last' = Returned("authenticate", isValid)
             /\ UNCHANGED <<devices, transactions, totalDevices, paused>>

\* authenticate that deactivates a device whose proof the verifier rejects.
authenticateDeactivating(deviceId, proof, input) ==
    IF ~devices[deviceId].isActive
    THEN Revert("authenticate", "Device not active")
    ELSE IF input[1] # deviceId
    THEN Revert("authenticate", "Device ID mismatch")
    ELSE LET isValid == VerifyProof(proof, input)
         IN  /\ events' = Append(events,
                    IF isValid
                    THEN <<"AuthenticationAttempt", deviceId, isValid>>
                    ELSE <<"DeviceDeactivated", deviceId, now>>)
             /\ devices' = [devices EXCEPT ![deviceId].isActive = isValid]
             /\ last' = Returned("authenticate", isValid)
             /\ UNCHANGED <<transactions, totalDevices, paused>>

authenticate(deviceId, proof, input) ==
    IF paused
    THEN Revert("authenticate", "Pausable: paused")
    ELSE IF ~devices[deviceId].isActive
    THEN Revert("authenticate", "Device not active")
    ELSE IF input[1] # deviceId
    THEN Revert("authenticate", "Device ID mismatch")
    ELSE LET isValid == VerifyProof(proof, input)
         IN  /\ events' = Append(events,
                    <<"AuthenticationAttempt", deviceId, isValid>>)
             /\ last' = Returned("authenticate", isValid)
             /\ UNCHANGED <<devices, transactions, totalDevices, paused>>

\* recordTransaction with authenticate's advisory treatment of the proof.
recordTransactionAdvisory(deviceId, dataHash, encryptedData, proof, input) ==
    IF ~devices[deviceId].isActive
    THEN Revert("recordTransaction", "Device not active")
    ELSE IF input[1] # deviceId
    THEN Revert("recordTransaction", "Device ID mismatch")
    ELSE /\ transactions' = [transactions EXCEPT ![deviceId] =
                Append(@, [deviceId |-> deviceId, dataHash |-> dataHash,
                           encryptedData |-> encryptedData,
                           timestamp |-> now])]
         /\ events' = Append(events,
                <<"TransactionRecorded", deviceId, dataHash, now>>)
         /\ last' = Returned("recordTransaction", VerifyProof(proof, input))
         /\ UNCHANGED <<devices, totalDevices, paused>>

\* recordTransaction without the comparison of input[0] with the device id.
recordTransactionUnbound(deviceId, dataHash, encryptedData, proof, input) ==
    IF ~devices[deviceId].isActive
    THEN Revert("recordTransaction", "Device not active")
    ELSE IF ~VerifyProof(proof, input)
    THEN Revert("recordTransaction", "Invalid proof")
    ELSE /\ transactions' = [transactions EXCEPT ![deviceId] =
                Append(@, [deviceId |-> deviceId, dataHash |-> dataHash,
                           encryptedData |-> encryptedData,
                           timestamp |-> now])]
         /\ events' = Append(events,
                <<"TransactionRecorded", deviceId, dataHash, now>>)
         /\ last' = Returned("recordTransaction", TRUE)
         /\ UNCHANGED <<devices, totalDevices, paused>>

\* recordTransaction with the two bytes32 arguments confused when the log is
\* looked up: the record goes to the log keyed by the data hash.
recordTransactionWrongKey(deviceId, dataHash, encryptedData, proof, input) ==
    IF ~devices[deviceId].isActive
    THEN Revert("recordTransaction", "Device not active")
    ELSE IF input[1] # deviceId
    THEN Revert("recordTransaction", "Device ID mismatch")
    ELSE IF ~VerifyProof(proof, input)
    THEN Revert("recordTransaction", "Invalid proof")
    ELSE /\ transactions' = [transactions EXCEPT ![dataHash] =
                Append(@, [deviceId |-> deviceId, dataHash |-> dataHash,
                           encryptedData |-> encryptedData,
                           timestamp |-> now])]
         /\ events' = Append(events,
                <<"TransactionRecorded", deviceId, dataHash, now>>)
         /\ last' = Returned("recordTransaction", TRUE)
         /\ UNCHANGED <<devices, totalDevices, paused>>

\* recordTransaction that accepts one record per device and takes a further
\* call for a replay.
recordTransactionOnce(deviceId, dataHash, encryptedData, proof, input) ==
    IF ~devices[deviceId].isActive
    THEN Revert("recordTransaction", "Device not active")
    ELSE IF input[1] # deviceId
    THEN Revert("recordTransaction", "Device ID mismatch")
    ELSE IF ~VerifyProof(proof, input)
    THEN Revert("recordTransaction", "Invalid proof")
    ELSE IF transactions[deviceId] # <<>>
    THEN Revert("recordTransaction", "Proof already used")
    ELSE /\ transactions' = [transactions EXCEPT ![deviceId] =
                Append(@, [deviceId |-> deviceId, dataHash |-> dataHash,
                           encryptedData |-> encryptedData,
                           timestamp |-> now])]
         /\ events' = Append(events,
                <<"TransactionRecorded", deviceId, dataHash, now>>)
         /\ last' = Returned("recordTransaction", TRUE)
         /\ UNCHANGED <<devices, totalDevices, paused>>

\* recordTransaction that has the verifier check the proof before it looks
\* at the device and the binding.
recordTransactionVerifyFirst(deviceId, dataHash, encryptedData, proof, input) ==
    IF ~VerifyProof(proof, input)
    THEN Revert("recordTransaction", "Invalid proof")
    ELSE IF ~devices[deviceId].isActive
    THEN Revert("recordTransaction", "Device not active")
    ELSE IF input[1] # deviceId
    THEN Revert("recordTransaction", "Device ID mismatch")
    ELSE /\ transactions' = [transactions EXCEPT ![deviceId] =
                Append(@, [deviceId |-> deviceId, dataHash |-> dataHash,
                           encryptedData |-> encryptedData,
                           timestamp |-> now])]
         /\ events' = Append(events,
                <<"TransactionRecorded", deviceId, dataHash, now>>)
         /\ last' = Returned("recordTransaction", TRUE)
         /\ UNCHANGED <<devices, totalDevices, paused>>

recordTransaction(deviceId, dataHash, encryptedData, proof, input) ==
    IF paused
    THEN Revert("recordTransaction", "Pausable: paused")
    ELSE IF ~devices[deviceId].isActive
    THEN Revert("recordTransaction", "Device not active")
    ELSE IF input[1] # deviceId
    THEN Revert("recordTransaction", "Device ID mismatch")
    ELSE IF ~VerifyProof(proof, input)
    THEN Revert("recordTransaction", "Invalid proof")
    ELSE /\ transactions' = [transactions EXCEPT ![deviceId] =
                Append(@, [deviceId |-> deviceId, dataHash |-> dataHash,
                           encryptedData |-> encryptedData,
                           timestamp |-> now])]
         /\ events' = Append(events,
                <<"TransactionRecorded", deviceId, dataHash, now>>)
         /\ last' = Returned("recordTransaction", TRUE)
         /\ UNCHANGED <<devices, totalDevices, paused>>

(***************************************************************************)
(* The ledger: callers send transactions, the ledger executes them one at  *)
(* a time, each atomically, at the timestamp of the current block.         *)
(***************************************************************************)
Send(c) ==
    /\ call = NoCall
    /\ Len(events) < MaxEvents
    /\ call' = c
    /\ last' = NoResult
    /\ UNCHANGED <<devices, transactions, totalDevices, events, now, paused,
                   simulator, clients>>

SendRegister ==
    \E sender \in Accounts, d \in DeviceIds, k \in PubKeyHashes, h \in HelperDatas :
        Send([op |-> "registerDevice", deviceId |-> d, pubKeyHash |-> k,
              helperData |-> h, sender |-> sender])

SendAuthenticate ==
    \E d \in DeviceIds, proof \in Proofs, input \in PublicInputs :
        Send([op |-> "authenticate", deviceId |-> d, proof |-> proof,
              input |-> input])

SendRecordTransaction ==
    \E d \in DeviceIds, dataHash \in DataHashes, e \in EncryptedDatas,
       proof \in Proofs, input \in PublicInputs :
        Send([op |-> "recordTransaction", deviceId |-> d, proof |-> proof,
              input |-> input, dataHash |-> dataHash, encryptedData |-> e])

Register ==
    /\ call.op = "registerDevice"
    /\ registerDevice(call.sender, call.deviceId, call.pubKeyHash, call.helperData)
    /\ call' = NoCall
    /\ UNCHANGED <<now, simulator, clients>>

Authenticate ==
    /\ call.op = "authenticate"
    /\ authenticate(call.deviceId, call.proof, call.input)
    /\ call' = NoCall
    /\ UNCHANGED <<now, simulator, clients>>

RecordTransaction ==
    /\ call.op = "recordTransaction"
    /\ recordTransaction(call.deviceId, call.dataHash, call.encryptedData,
                         call.proof, call.input)
    /\ call' = NoCall
    /\ UNCHANGED <<now, simulator, clients>>

\* The read-only queries, called from outside the ledger's transactions.
QueryOps == {"isDeviceRegistered", "isDeviceActive", "getTransactionCount"}

SendQuery ==
    \E q \in QueryOps, d \in DeviceIds : Send([op |-> q, deviceId |-> d])

\* A view function returns its value and writes nothing.
View(op, value) ==
    /\ call.op = op
    /\ last' = Returned(op, value)
    /\ call' = NoCall
    /\ UNCHANGED <<devices, transactions, totalDevices, events, now, paused,
                   simulator, clients>>

IsDeviceRegistered == View("isDeviceRegistered", isDeviceRegistered(call.deviceId))

IsDeviceActive == View("isDeviceActive", isDeviceActive(call.deviceId))

\* getTransactionCount that looks the device up first and rejects an id
\* without a record.
GetTransactionCountKnownOnly ==
    /\ call.op = "getTransactionCount"
    /\ last' = IF isDeviceRegistered(call.deviceId)
               THEN Returned("getTransactionCount", getTransactionCount(call.deviceId))
               ELSE Reverted("getTransactionCount", "Device not registered")
    /\ call' = NoCall
    /\ UNCHANGED <<devices, transactions, totalDevices, events, now, paused,
                   simulator, clients>>

GetTransactionCount ==
    View("getTransactionCount", getTransactionCount(call.deviceId))

\* The ledger moves to a later block.
Tick ==
    /\ now < MaxTime
    /\ now' = now + 1
    /\ UNCHANGED <<devices, transactions, totalDevices, events, paused, call,
                   last, simulator, clients>>

Next ==
    \/ SendRegister
    \/ SendAuthenticate
    \/ SendRecordTransaction
    \/ Register
    \/ Authenticate
    \/ RecordTransaction
    \/ SendQuery
    \/ IsDeviceRegistered
    \/ IsDeviceActive
    \/ GetTransactionCount
    \/ Tick

Spec == Init /\ [][Next]_vars

(***************************************************************************)
(* Off the ledger: the PUF simulator (utils/PUFSimulator.js), the proof     *)
(* generator and the off-chain verification of a proof.  A function call   *)
(* is made, then runs to its end without another call in between.          *)
(***************************************************************************)
\* An exception reaches the caller.
Thrown(op, reason) ==
    [op |-> op, status |-> "thrown", reason |-> reason, ret |-> FALSE]

\* BigInt.toString(): the decimal digits of a non-negative integer.
DecimalDigits == <<"0", "1", "2", "3", "4", "5", "6", "7", "8", "9">>
RECURSIVE toString(_)
toString(n) ==
    IF n < 10 THEN <<DecimalDigits[n + 1]>>
    ELSE toString(n \div 10) \o <<DecimalDigits[(n % 10) + 1]>>

\* BigInt(string): the integer a string of decimal digits denotes, as the
\* witness calculator reads the inputs file.
RECURSIVE BigInt(_)
BigInt(digits) ==
    IF digits = <<>> THEN 0
    ELSE 10 * BigInt(SubSeq(digits, 1, Len(digits) - 1))
           + ((CHOOSE i \in 1..10 : DecimalDigits[i] = digits[Len(digits)]) - 1)

\* The memo key `${deviceId}-${challenge}`.
Key(deviceId, challenge) == toString(deviceId) \o <<"-">> \o toString(challenge)

\* The byte a character is stored as.
CharCode(ch) ==
    IF ch = "-" THEN 11 ELSE CHOOSE i \in 1..10 : DecimalDigits[i] = ch

\* SHA-256 of a buffer read as an unsigned integer: a stand-in that depends
\* on every byte and its position, with a range wider than the field.
RECURSIVE Sha256(_)
Sha256(buffer) ==
    IF buffer = <<>> THEN 1
    ELSE (3 * Sha256(SubSeq(buffer, 1, Len(buffer) - 1))
            + CharCode(buffer[Len(buffer)])) % 2^(RangeBits + 2)

\* generateChallenge that draws one byte more and returns it unreduced.
generateChallenge32 == RandomBytes(ChallengeBytes + 1)

\* generateChallenge: the values a call may return.
generateChallenge == {challenge % FieldP : challenge \in RandomBytes(ChallengeBytes)}

\* The memo map with one more entry.
MapSet(map, key, value) ==
    [k \in DOMAIN map \cup {key} |-> IF k = key THEN value ELSE map[k]]

\* generateResponse that memoizes the digest before its reduction.
generateResponseStoresDigest(map, deviceId, challenge) ==
    LET key == Key(deviceId, challenge)
        response == Sha256(seed \o key) % FieldP
    IN  IF key \in DOMAIN map
        THEN [responseMap |-> map, ret |-> map[key]]
        ELSE [responseMap |-> MapSet(map, key, Sha256(seed \o key)),
              ret |-> response]

\* generateResponse on a simulator whose memo map is map: the map after the
\* call and the value returned.
generateResponse(map, deviceId, challenge) ==
    LET key == Key(deviceId, challenge)
        response == Sha256(seed \o key) % FieldP
    IN  IF key \in DOMAIN map
        THEN [responseMap |-> map, ret |-> map[key]]
        ELSE [responseMap |-> MapSet(map, key, response), ret |-> response]

\* generateExpectedHash that hashes [challenge, response].
generateExpectedHashSwapped(map, deviceId, challenge) ==
    LET r == generateResponse(map, deviceId, challenge)
    IN  [responseMap |-> r.responseMap,
         ret |-> toString(Poseidon(challenge, r.ret))]

\* generateExpectedHash once poseidon is built: the hash as a decimal string.
generateExpectedHash(map, deviceId, challenge) ==
    LET r == generateResponse(map, deviceId, challenge)
    IN  [responseMap |-> r.responseMap,
         ret |-> toString(Poseidon(r.ret, challenge))]

\* generateCircuitInput for the challenge that generateChallenge returned:
\* the four inputs as decimal strings.
generateCircuitInput(map, deviceId, challenge) ==
    LET r == generateResponse(map, deviceId, challenge)
        h == generateExpectedHash(r.responseMap, deviceId, challenge)
    IN  [responseMap |-> h.responseMap,
         ret |-> [deviceId |-> toString(deviceId),
                  challenge |-> toString(challenge),
                  response |-> toString(r.ret), expectedHash |-> h.ret]]

\* The inputs file as the witness calculator reads it.
ParseInputs(inputs) ==
    [deviceId |-> BigInt(inputs.deviceId),
     challenge |-> BigInt(inputs.challenge),
     response |-> BigInt(inputs.response),
     expectedHash |-> BigInt(inputs.expectedHash)]

\* The inputs handed to generateProof: any device id, a challenge the
\* simulator may return, a response that is a field element or the first
\* value beyond the circuit's declared range, and a commitment from the field.
IssueInputs ==
    [deviceId : DeviceIds, challenge : generateChallenge,
     response : {1, 2, 2^RangeBits}, expectedHash : FieldElems]

\* What generateProof returned where it succeeded.
Issued == {GenerateProof(i) : i \in {j \in IssueInputs : GenerateProof(j).success}}

ledger == <<devices, transactions, totalDevices, events, now, paused>>

\* The constructor ran: the simulator holds its seed, an empty memo map and
\* no poseidon yet; the ledger is as deployed.
PufInit ==
    /\ devices = [d \in DeviceIds |-> ZeroDevice]
    /\ transactions = [d \in DeviceIds |-> <<>>]
    /\ totalDevices = 0
    /\ events = <<>>
    /\ now = 0
    /\ paused = FALSE
    /\ call = NoCall
    /\ last = NoResult
    /\ seed \in Seeds
    /\ responseMap = <<>>
    /\ poseidon = FALSE
    /\ cache = <<>>
    /\ clock = 0
    /\ run = Idle
    /\ files = NoFiles
    /\ gen = <<>>

CallGenerateChallenge == Send([op |-> "generateChallenge"])

CallGenerateResponse ==
    \E d \in PufDeviceIds, c \in generateChallenge :
        Send([op |-> "generateResponse", deviceId |-> d, challenge |-> c])

CallGenerateExpectedHash ==
    \E d \in PufDeviceIds, c \in generateChallenge :
        Send([op |-> "generateExpectedHash", deviceId |-> d, challenge |-> c])

CallGenerateCircuitInput ==
    \E d \in PufDeviceIds : Send([op |-> "generateCircuitInput", deviceId |-> d])

CallGenerateProof ==
    \E i \in IssueInputs : Send([op |-> "generateProof", inputs |-> i])

\* The verification of an issued proof against its own public signals, or
\* against them with another commitment.
CallVerify ==
    \E issued \in Issued, h \in FieldElems :
        Send([op |-> "verify", proof |-> issued.proof,
              input |-> <<issued.publicSignals[1], issued.publicSignals[2], h>>])

Initialize ==
    /\ call = NoCall
    /\ ~poseidon
    /\ poseidon' = TRUE
    /\ UNCHANGED <<ledger, call, last, seed, responseMap, clients>>

GenerateChallenge ==
    /\ call.op = "generateChallenge"
    /\ \E challenge \in generateChallenge :
          last' = Returned("generateChallenge", challenge)
    /\ call' = NoCall
    /\ UNCHANGED <<ledger, simulator, clients>>

GenerateResponse ==
    /\ call.op = "generateResponse"
    /\ LET r == generateResponse(responseMap, call.deviceId, call.challenge)
       IN  /\ responseMap' = r.responseMap
           /\ last' = Returned("generateResponse", r.ret)
    /\ call' = NoCall
    /\ UNCHANGED <<ledger, seed, poseidon, clients>>

GenerateExpectedHash ==
    /\ call.op = "generateExpectedHash"
    /\ IF ~poseidon
       THEN /\ last' = Thrown("generateExpectedHash",
                              "PUFSimulator not initialized")
            /\ UNCHANGED responseMap
       ELSE LET h == generateExpectedHash(responseMap, call.deviceId,
                                          call.challenge)
            IN  /\ responseMap' = h.responseMap
                /\ last' = Returned("generateExpectedHash", h.ret)
    /\ call' = NoCall
    /\ UNCHANGED <<ledger, seed, poseidon, clients>>

GenerateCircuitInput ==
    /\ call.op = "generateCircuitInput"
    /\ \E challenge \in generateChallenge :
          LET i == generateCircuitInput(responseMap, call.deviceId, challenge)
          IN  /\ responseMap' = i.responseMap
              /\ last' = IF ~poseidon
                         THEN Thrown("generateCircuitInput",
                                     "PUFSimulator not initialized")
                         ELSE Returned("generateCircuitInput", i.ret)
    /\ call' = NoCall
    /\ UNCHANGED <<ledger, seed, poseidon, clients>>

IssueProof ==
    /\ call.op = "generateProof"
    /\ last' = Returned("generateProof", GenerateProof(call.inputs))
    /\ call' = NoCall
    /\ UNCHANGED <<ledger, simulator, clients>>

Verify ==
    /\ call.op = "verify"
    /\ last' = Returned("verify", groth16Verify(call.input, call.proof))
    /\ call' = NoCall
    /\ UNCHANGED <<ledger, simulator, clients>>

PufNext ==
    \/ Initialize
    \/ CallGenerateChallenge
    \/ CallGenerateResponse
    \/ CallGenerateExpectedHash
    \/ CallGenerateCircuitInput
    \/ CallGenerateProof
    \/ CallVerify
    \/ GenerateChallenge
    \/ GenerateResponse
    \/ GenerateExpectedHash
    \/ GenerateCircuitInput
    \/ IssueProof
    \/ Verify

PufSpec == PufInit /\ [][PufNext]_vars

\* The registry together with a device whose PUF the simulator stands for:
\* the ledger's actions, from a state in which the simulator holds its seed.
DeviceSpec == PufInit /\ [][Next]_vars

(***************************************************************************)
(* The noise injector of the experiments: addNoiseToResponse of            *)
(* test/experiments.js, on BigInt values, and of scripts/run_experiments.js,*)
(* on 0x-prefixed hexadecimal strings.                                     *)
(***************************************************************************)
\* The responses noise is added to, and the noise levels.
NoisyResponses == 0..(2^NoiseBits - 1)
NoiseLevels == 0..NoiseScale

\* BigInt.toString(2).split(''): the binary digits, most significant first.
RECURSIVE toBinaryString(_)
toBinaryString(n) ==
    IF n < 2 THEN <<DecimalDigits[n + 1]>>
    ELSE toBinaryString(n \div 2) \o <<DecimalDigits[(n % 2) + 1]>>

\* BigInt('0b' + bits.join('')).
RECURSIVE parseBinary(_)
parseBinary(bits) ==
    IF bits = <<>> THEN 0
    ELSE 2 * parseBinary(SubSeq(bits, 1, Len(bits) - 1))
           + (IF bits[Len(bits)] = "1" THEN 1 ELSE 0)

\* The hexadecimal digits, BigInt.toString(16) and BigInt('0x...').
HexDigits == DecimalDigits \o <<"a", "b", "c", "d", "e", "f">>
RECURSIVE toHexString(_)
toHexString(n) ==
    IF n < 16 THEN <<HexDigits[n + 1]>>
    ELSE toHexString(n \div 16) \o <<HexDigits[(n % 16) + 1]>>
RECURSIVE parseHex(_)
parseHex(digits) ==
    IF digits = <<>> THEN 0
    ELSE 16 * parseHex(SubSeq(digits, 1, Len(digits) - 1))
           + ((CHOOSE i \in 1..16 : HexDigits[i] = digits[Len(digits)]) - 1)

\* '0x' + crypto.randomBytes(n).toString('hex'): two digits for every byte.
HexOfBytes(n) == <<"0", "x">> \o (IF n < 16 THEN <<"0">> ELSE <<>>) \o toHexString(n)
\* BigInt(response) of a 0x-prefixed string.
BigIntOfHex(response) == parseHex(SubSeq(response, 3, Len(response)))

\* Math.floor(responseBits.length * noiseLevel) rounded up instead.
numBitsToFlipCeil(length, noiseLevel) ==
    (length * noiseLevel + NoiseScale - 1) \div NoiseScale

\* Math.floor(responseBits.length * noiseLevel).
numBitsToFlip(length, noiseLevel) == (length * noiseLevel) \div NoiseScale

\* The loop of addNoiseToResponse: one flip for every index drawn, in the
\* order drawn.
RECURSIVE FlipBits(_, _)
FlipBits(responseBits, indices) ==
    IF indices = <<>> THEN responseBits
    ELSE LET index == Head(indices)
         IN  FlipBits([responseBits EXCEPT ![index + 1] =
                           IF @ = "0" THEN "1" ELSE "0"],
                      Tail(indices))

\* addNoiseToResponse whose loop runs once more than numBitsToFlip.
addNoiseToResponseInclusive(responseBigInt, noiseLevel) ==
    LET responseBits == toBinaryString(responseBigInt)
        n == numBitsToFlip(Len(responseBits), noiseLevel) + 1
    IN  {parseBinary(FlipBits(responseBits, indices)) :
             indices \in [1..n -> 0..(Len(responseBits) - 1)]}

\* addNoiseToResponse of test/experiments.js: the values a call may return,
\* one for every sequence of indices Math.random may draw.
addNoiseToResponse(responseBigInt, noiseLevel) ==
    LET responseBits == toBinaryString(responseBigInt)
        n == numBitsToFlip(Len(responseBits), noiseLevel)
    IN  {parseBinary(FlipBits(responseBits, indices)) :
             indices \in [1..n -> 0..(Len(responseBits) - 1)]}

\* addNoiseToResponse of scripts/run_experiments.js: from a 0x string to a
\* 0x string.
addNoiseToResponseHex(response, noiseLevel) ==
    {<<"0", "x">> \o toHexString(r) :
         r \in addNoiseToResponse(BigIntOfHex(response), noiseLevel)}

CallAddNoiseToResponse ==
    \E r \in NoisyResponses, l \in NoiseLevels :
        Send([op |-> "addNoiseToResponse", response |-> r, noiseLevel |-> l])

CallAddNoiseToResponseHex ==
    \E r \in NoisyResponses, l \in NoiseLevels :
        Send([op |-> "addNoiseToResponseHex", response |-> HexOfBytes(r),
              noiseLevel |-> l])

AddNoiseToResponse ==
    /\ call.op = "addNoiseToResponse"
    /\ \E r \in addNoiseToResponse(call.response, call.noiseLevel) :
          last' = Returned("addNoiseToResponse", r)
    /\ call' = NoCall
    /\ UNCHANGED <<ledger, simulator, clients>>

AddNoiseToResponseHex ==
    /\ call.op = "addNoiseToResponseHex"
    /\ \E r \in addNoiseToResponseHex(call.response, call.noiseLevel) :
          last' = Returned("addNoiseToResponseHex", r)
    /\ call' = NoCall
    /\ UNCHANGED <<ledger, simulator, clients>>

NoiseNext ==
    \/ CallAddNoiseToResponse
    \/ CallAddNoiseToResponseHex
    \/ AddNoiseToResponse
    \/ AddNoiseToResponseHex

NoiseSpec == Init /\ [][NoiseNext]_vars

(***************************************************************************)
(* The proof cache of scripts/run_experiments.js.                          *)
(***************************************************************************)
\* The device ids and the challenge the cache is asked about, as the 0x
\* strings the experiments build.
CacheDeviceIds == {HexOfBytes(1), HexOfBytes(2)}
CacheChallenges == {HexOfBytes(1)}

\* The results of generateProof that are stored: the proofs issued for
\* device 1 and challenge 1, one for every commitment.
CachedResults ==
    {g \in Issued : g.publicSignals[1] = 1 /\ g.publicSignals[2] = 1}

\* getKey that leaves the device id out of the key.
getKeyChallengeOnly(deviceId, challenge) == <<"-">> \o challenge

\* ProofCache.getKey.
getKey(deviceId, challenge) == deviceId \o <<"-">> \o challenge

\* Map.delete.
MapDelete(map, key) == [k \in DOMAIN map \ {key} |-> map[k]]

\* ProofCache.set that keeps the timestamp of the entry it replaces.
ProofCacheSetKeepsStamp(map, deviceId, challenge, proof, publicSignals) ==
    LET key == getKey(deviceId, challenge)
    IN  MapSet(map, key,
               [proof |-> proof, publicSignals |-> publicSignals,
                timestamp |-> IF key \in DOMAIN map THEN map[key].timestamp
                              ELSE clock])

\* ProofCache.set on the map of a cache: the map after the call.
ProofCacheSet(map, deviceId, challenge, proof, publicSignals) ==
    MapSet(map, getKey(deviceId, challenge),
           [proof |-> proof, publicSignals |-> publicSignals,
            timestamp |-> clock])

\* ProofCache.get that expires an entry as soon as its age reaches the
\* timeout.
ProofCacheGetEarly(map, deviceId, challenge) ==
    LET key == getKey(deviceId, challenge)
    IN  IF key \notin DOMAIN map
        THEN [cache |-> map, ret |-> <<>>]
        ELSE IF clock - map[key].timestamp >= Timeout
        THEN [cache |-> MapDelete(map, key), ret |-> <<>>]
        ELSE [cache |-> map, ret |-> <<map[key]>>]

\* ProofCache.get on the map of a cache: the map after the call and the
\* value returned, <<>> for null and <<entry>> for an entry.
ProofCacheGet(map, deviceId, challenge) ==
    LET key == getKey(deviceId, challenge)
    IN  IF key \notin DOMAIN map
        THEN [cache |-> map, ret |-> <<>>]
        ELSE IF clock - map[key].timestamp > Timeout
        THEN [cache |-> MapDelete(map, key), ret |-> <<>>]
        ELSE [cache |-> map, ret |-> <<map[key]>>]

CallSet ==
    \E d \in CacheDeviceIds, c \in CacheChallenges, g \in CachedResults :
        Send([op |-> "set", deviceId |-> d, challenge |-> c,
              proof |-> g.proof, publicSignals |-> g.publicSignals])

CallGet ==
    \E d \in CacheDeviceIds, c \in CacheChallenges :
        Send([op |-> "get", deviceId |-> d, challenge |-> c])

Set ==
    /\ call.op = "set"
    /\ cache' = ProofCacheSet(cache, call.deviceId, call.challenge,
                              call.proof, call.publicSignals)
    /\ last' = Returned("set", TRUE)
    /\ call' = NoCall
    /\ UNCHANGED <<ledger, simulator, clock, run, files, gen>>

Get ==
    /\ call.op = "get"
    /\ LET r == ProofCacheGet(cache, call.deviceId, call.challenge)
       IN  /\ cache' = r.cache
           /\ last' = Returned("get", r.ret)
    /\ call' = NoCall
    /\ UNCHANGED <<ledger, simulator, clock, run, files, gen>>

\* Time passes.
ClockTick ==
    /\ clock < MaxClock
    /\ clock' = clock + 1
    /\ UNCHANGED <<ledger, simulator, call, last, cache, run, files, gen>>

CacheNext ==
    \/ CallSet
    \/ CallGet
    \/ Set
    \/ Get
    \/ ClockTick

CacheSpec == Init /\ [][CacheNext]_vars

(***************************************************************************)
(* The experiment loop of scripts/run_experiments.js: one iteration looks  *)
(* the proof up in the cache or generates and caches it, registers the     *)
(* device, authenticates it and records a transaction.  An exception ends  *)
(* the iteration.                                                          *)
(***************************************************************************)
\* The responses generateDeviceInput draws and the noise levels of the loop.
ExperimentResponses == {HexOfBytes(1), HexOfBytes(2)}
ExperimentNoiseLevels == {0, NoiseScale \div 2}

\* What generateProof returns from its catch block: no proof and no public
\* signals.  The snarkjs commands it runs can fail whatever the inputs are.
generateProofFailed ==
    [success |-> FALSE, proof |-> [stmt |-> <<>>, pi_b |-> <<>>],
     publicSignals |-> <<>>]

\* The inputs of an iteration as the witness calculator reads them: the 0x
\* strings and the decimal string of the hash.
ExperimentInputs(deviceId, challenge, response) ==
    [deviceId |-> BigIntOfHex(deviceId), challenge |-> BigIntOfHex(challenge),
     response |-> BigIntOfHex(response),
     expectedHash |->
         BigInt(toString(Poseidon(BigIntOfHex(response), BigIntOfHex(challenge))))]

\* The loop between two iterations, after runs of them.
Experiment(runs, error) ==
    [op |-> "experiment", deviceId |-> <<>>,
     proof |-> [stmt |-> <<>>, pi_b |-> <<>>], publicSignals |-> <<>>,
     runs |-> runs, error |-> error, stage |-> "idle", hit |-> FALSE]

ExperimentInit ==
    /\ devices = [d \in DeviceIds |-> ZeroDevice]
    /\ transactions = [d \in DeviceIds |-> <<>>]
    /\ totalDevices = 0
    /\ events = <<>>
    /\ now = 0
    /\ paused = FALSE
    /\ call = NoCall
    /\ last = NoResult
    /\ seed = <<>>
    /\ responseMap = <<>>
    /\ poseidon = FALSE
    /\ cache = <<>>
    /\ clock = 0
    /\ run = Experiment(0, "")
    /\ files = NoFiles
    /\ gen = <<>>

\* The iteration goes on to its next stage.
Proceed(stage) == run' = [run EXCEPT !.stage = stage]

\* The iteration ends, with the message of the exception that ended it.
EndExperiment(error) == run' = Experiment(run.runs + 1, error)

\* Lines 285-322: the cache lookup and, on a miss, noise, hash, proof
\* generation and the unconditional cache fill.
ExperimentLookup ==
    /\ run.op = "experiment" /\ run.stage = "idle"
    /\ run.runs < MaxRuns
    /\ \E noiseLevel \in ExperimentNoiseLevels, deviceId \in CacheDeviceIds,
          challenge \in CacheChallenges, response \in ExperimentResponses :
          LET cacheEntry == ProofCacheGet(cache, deviceId, challenge)
          IN  IF cacheEntry.ret # <<>>
              THEN /\ cache' = cacheEntry.cache
                   /\ run' = [run EXCEPT !.deviceId = deviceId,
                                  !.proof = cacheEntry.ret[1].proof,
                                  !.publicSignals = cacheEntry.ret[1].publicSignals,
                                  !.error = "", !.stage = "register",
                                  !.hit = TRUE]
              ELSE \E noisy \in (IF noiseLevel > 0
                                  THEN addNoiseToResponseHex(response, noiseLevel)
                                  ELSE {response}) :
                   \E result \in {GenerateProof(ExperimentInputs(deviceId,
                                                    challenge, noisy)),
                                   generateProofFailed} :
                      /\ cache' = ProofCacheSet(cacheEntry.cache, deviceId,
                                       challenge, result.proof,
                                       result.publicSignals)
                      /\ run' = [run EXCEPT !.deviceId = deviceId,
                                     !.proof = result.proof,
                                     !.publicSignals = result.publicSignals,
                                     !.error = "", !.stage = "register",
                                     !.hit = FALSE]
    /\ UNCHANGED <<ledger, simulator, call, last, clock, files, gen>>

\* Lines 324-341: the registration, then the proof is laid out for the
\* contract, which throws when there is no proof to read.
ExperimentRegister ==
    /\ run.op = "experiment" /\ run.stage = "register"
    /\ registerDevice("acct0", BigIntOfHex(run.deviceId), 1, 1)
    /\ IF last'.status = "reverted" THEN EndExperiment(last'.reason)
       ELSE IF run.proof = generateProofFailed.proof
       THEN EndExperiment("TypeError")
       ELSE Proceed("authenticate")
    /\ UNCHANGED <<now, simulator, call, cache, clock, files, gen>>

\* Lines 343-357.
ExperimentAuthenticate ==
    /\ run.op = "experiment" /\ run.stage = "authenticate"
    /\ authenticate(BigIntOfHex(run.deviceId), proofForContract(run.proof),
                    run.publicSignals)
    /\ IF last'.status = "reverted" THEN EndExperiment(last'.reason)
       ELSE Proceed("recordTransaction")
    /\ UNCHANGED <<now, simulator, call, cache, clock, files, gen>>

\* Lines 359-399.
ExperimentRecordTransaction ==
    /\ run.op = "experiment" /\ run.stage = "recordTransaction"
    /\ recordTransaction(BigIntOfHex(run.deviceId), 1, 1,
                         proofForContract(run.proof), run.publicSignals)
    /\ EndExperiment(IF last'.status = "reverted" THEN last'.reason ELSE "")
    /\ UNCHANGED <<now, simulator, call, cache, clock, files, gen>>

ExperimentNext ==
    \/ ExperimentLookup
    \/ ExperimentRegister
    \/ ExperimentAuthenticate
    \/ ExperimentRecordTransaction
    \/ ClockTick
    \/ Tick

ExperimentSpec == ExperimentInit /\ [][ExperimentNext]_vars

(***************************************************************************)
(* AuthenticationService (utils/AuthenticationService.js): a client that   *)
(* owns a PUF simulator and a proof generator and sends the registry's     *)
(* transactions.  A method runs to its end; run holds what it returned.    *)
(***************************************************************************)
\* The device ids the service is asked to authenticate, as bytes32 strings.
ServiceDeviceIds == {HexOfBytes(1), HexOfBytes(2)}

\* generateDeviceId: randomBytes(31) read as an integer, below the field order.
generateDeviceId == RandomBytes(ChallengeBytes)

\* convertToBytes32: the value written in hexadecimal, as the contract reads it.
convertToBytes32(value) == BigIntOfHex(<<"0", "x">> \o toHexString(value))

\* The proof as authenticate formats it for the contract: the first two
\* coefficients of each pi_b coordinate, in the order snarkjs wrote them.
proofData(proof) == [stmt |-> proof.stmt, pi_b |-> SubSeq(proof.pi_b, 1, 2)]

\* What a method of the service returned, or the message of what it threw.
ServiceResult(op, deviceId, success, error) ==
    [op |-> op, deviceId |-> deviceId, success |-> success, error |-> error]

ServiceInit == PufInit

\* registerDevice(account), lines 62-100.
ServiceRegisterDevice ==
    /\ Len(events) < MaxEvents
    /\ \E account \in Accounts, deviceId \in generateDeviceId :
          /\ registerDevice(account, convertToBytes32(deviceId), 1, 1)
          /\ run' = ServiceResult("registerDevice", deviceId,
                        last'.status # "reverted", last'.reason)
    /\ poseidon' = TRUE
    /\ UNCHANGED <<now, seed, responseMap, call, cache, clock, files, gen>>

\* authenticate(deviceId, account), lines 102-179.
ServiceAuthenticate ==
    /\ Len(events) < MaxEvents
    /\ \E deviceId \in ServiceDeviceIds, challenge \in generateChallenge,
          proved \in BOOLEAN :
          LET deviceIdBigInt == BigIntOfHex(deviceId)
              response == generateResponse(responseMap, deviceIdBigInt, challenge)
              expectedHash == generateExpectedHash(response.responseMap,
                                                   deviceIdBigInt, challenge)
              circuitInputs ==
                  [deviceId |-> toString(deviceIdBigInt),
                   challenge |-> toString(challenge),
                   response |-> toString(response.ret),
                   expectedHash |-> expectedHash.ret]
              generated == IF proved
                           THEN GenerateProof(ParseInputs(circuitInputs))
                           ELSE generateProofFailed
          IN  /\ responseMap' = expectedHash.responseMap
              /\ IF ~generated.success
                 THEN /\ last' = NoResult
                      /\ run' = ServiceResult("authenticate", deviceId, FALSE,
                                              "Failed to generate proof")
                      /\ UNCHANGED <<devices, transactions, totalDevices,
                                     events, paused>>
                 ELSE /\ authenticate(convertToBytes32(deviceIdBigInt),
                                      proofData(generated.proof),
                                      generated.publicSignals)
                      /\ run' = ServiceResult("authenticate", deviceId,
                                    last'.status # "reverted", last'.reason)
    /\ poseidon' = TRUE
    /\ UNCHANGED <<now, seed, call, cache, clock, files, gen>>

ServiceNext ==
    \/ ServiceRegisterDevice
    \/ ServiceAuthenticate
    \/ Tick

ServiceSpec == ServiceInit /\ [][ServiceNext]_vars

(***************************************************************************)
(* A caller that holds one proof with its public inputs and sends it to    *)
(* the registry again and again, as the experiment does when it passes the *)
(* proof of one generation to authenticate and then to recordTransaction.  *)
(***************************************************************************)
\* The caller's book-keeping: the call it repeats, how many times it sent
\* it, how many of the calls the registry accepted and how many records it
\* got stored.
Replay(deviceId, proof, publicSignals, runs, accepted, recorded) ==
    [op |-> "replay", deviceId |-> deviceId, proof |-> proof,
     publicSignals |-> publicSignals, runs |-> runs, accepted |-> accepted,
     recorded |-> recorded]

ReplayInit ==
    /\ devices = [d \in DeviceIds |-> ZeroDevice]
    /\ transactions = [d \in DeviceIds |-> <<>>]
    /\ totalDevices = 0
    /\ events = <<>>
    /\ now = 0
    /\ paused = FALSE
    /\ call = NoCall
    /\ last = NoResult
    /\ seed = <<>>
    /\ responseMap = <<>>
    /\ poseidon = FALSE
    /\ cache = <<>>
    /\ clock = 0
    /\ run \in {Replay(d, proof, input, 0, 0, 0) :
                  d \in DeviceIds, proof \in Proofs, input \in PublicInputs}
    /\ files = NoFiles
    /\ gen = <<>>

\* The device is registered by its owner.
ReplayRegister ==
    /\ ~devices[run.deviceId].isActive
    /\ \E sender \in Accounts : registerDevice(sender, run.deviceId, 1, 1)
    /\ UNCHANGED <<now, simulator, call, clients>>

\* README lines 345-352: authenticate with the proof the caller holds.
ReplayAuthenticate ==
    /\ run.runs < MaxRuns
    /\ authenticate(run.deviceId, run.proof, run.publicSignals)
    /\ run' = [run EXCEPT !.runs = @ + 1,
                          !.accepted = @ + (IF last'.ret THEN 1 ELSE 0)]
    /\ UNCHANGED <<now, simulator, call, cache, clock, files, gen>>

\* README lines 367-376: recordTransaction with the proof the caller holds.
ReplayRecordTransaction ==
    /\ run.runs < MaxRuns
    /\ \E dataHash \in DataHashes :
          recordTransaction(run.deviceId, dataHash, 1, run.proof,
                            run.publicSignals)
    /\ run' = [run EXCEPT !.runs = @ + 1,
                          !.accepted = @ + (IF last'.ret THEN 1 ELSE 0),
                          !.recorded = @ + (IF last'.ret THEN 1 ELSE 0)]
    /\ UNCHANGED <<now, simulator, call, cache, clock, files, gen>>

ReplayNext ==
    \/ ReplayRegister
    \/ ReplayAuthenticate
    \/ ReplayRecordTransaction
    \/ Tick

ReplaySpec == ReplayInit /\ [][ReplayNext]_vars

(***************************************************************************)
(* The scalability run (scripts/run_scalability.js): for a device count    *)
(* and a batch size, the devices are processed batch by batch and one row  *)
(* of statistics is appended to the results file after each batch.         *)
(***************************************************************************)
\* The device counts and batch sizes of the run, scaled down: a count that
\* the batch size divides and one that leaves a shorter last batch.
deviceCounts == {2, 3}
batchSizes == {1, 2}

\* What performance.now() differences come to, in milliseconds.
Durations == {1, 2}

\* What processDevice returns: success with the two times it measured, or
\* the failure of a device whose proof or transaction threw.
DeviceResults ==
    [success : {TRUE}, proofTime : Durations, verifyTime : Durations]
        \cup {[success |-> FALSE, proofTime |-> 0, verifyTime |-> 0]}

\* results.filter(r => r.success).
successfulResults(results) == SelectSeq(results, LAMBDA r : r.success)

\* successfulResults.reduce((sum, r) => sum + r.proofTime, 0).
RECURSIVE sumProofTime(_)
sumProofTime(results) ==
    IF results = <<>> THEN 0
    ELSE results[1].proofTime + sumProofTime(Tail(results))

\* successfulResults.reduce((sum, r) => sum + r.verifyTime, 0).
RECURSIVE sumVerifyTime(_)
sumVerifyTime(results) ==
    IF results = <<>> THEN 0
    ELSE results[1].verifyTime + sumVerifyTime(Tail(results))

\* a / b as the fraction it is, and the number 0.
Quotient(a, b) == <<a, b>>
Zero == <<0, 1>>

\* The loop over the batches of one device count and batch size: the devices
\* processed so far, the running totals, and the results and the row of the
\* batch just finished.
Scalability(deviceCount, batchSize, processed, batchNumber, totalProofTime, totalVerifyTime, results, row) ==
    [op |-> "scalability", results |-> results, deviceCount |-> deviceCount,
     batchSize |-> batchSize, processed |-> processed,
     batchNumber |-> batchNumber, totalProofTime |-> totalProofTime,
     totalVerifyTime |-> totalVerifyTime, row |-> row]

\* Lines 191-196: the totals are reset for a device count and a batch size;
\* no row of theirs was written yet.
StartBatches(deviceCount, batchSize) ==
    Scalability(deviceCount, batchSize, 0, 0, 0, 0, <<>>,
                [successful |-> 0, failed |-> 0, AverageProofTime |-> Zero,
                 AverageVerifyTime |-> Zero])

ScalabilityInit ==
    /\ devices = [d \in DeviceIds |-> ZeroDevice]
    /\ transactions = [d \in DeviceIds |-> <<>>]
    /\ totalDevices = 0
    /\ events = <<>>
    /\ now = 0
    /\ paused = FALSE
    /\ call = NoCall
    /\ last = NoResult
    /\ seed = <<>>
    /\ responseMap = <<>>
    /\ poseidon = FALSE
    /\ cache = <<>>
    /\ clock = 0
    /\ run \in {StartBatches(deviceCount, batchSize) :
                  deviceCount \in deviceCounts, batchSize \in batchSizes}
    /\ files = NoFiles
    /\ gen = <<>>

\* Lines 198-244: one batch is processed and its row is written.
ProcessBatch ==
    /\ run.op = "scalability"
    /\ run.processed < run.deviceCount
    /\ LET currentBatchSize ==
               IF run.batchSize < run.deviceCount - run.processed
               THEN run.batchSize ELSE run.deviceCount - run.processed
       IN  \E results \in [1..currentBatchSize -> DeviceResults] :
             LET ok == successfulResults(results)
                 successful == Len(ok)
                 failed == Len(results) - successful
                 totalProofTime == run.totalProofTime + sumProofTime(ok)
                 totalVerifyTime == run.totalVerifyTime + sumVerifyTime(ok)
             IN  run' = Scalability(run.deviceCount, run.batchSize,
                            run.processed + run.batchSize,
                            run.batchNumber + 1, totalProofTime,
                            totalVerifyTime, results,
                            [successful |-> successful, failed |-> failed,
                             AverageProofTime |->
                                 IF successful # 0
                                 THEN Quotient(totalProofTime, successful)
                                 ELSE Zero,
                             AverageVerifyTime |->
                                 IF successful # 0
                                 THEN Quotient(totalVerifyTime, successful)
                                 ELSE Zero])
    /\ UNCHANGED <<ledger, simulator, call, last, cache, clock, files, gen>>

\* The loops over the batch sizes and the device counts move on.
NextBatchSize ==
    /\ run.op = "scalability"
    /\ run.processed >= run.deviceCount
    /\ \E deviceCount \in deviceCounts, batchSize \in batchSizes :
          run' = StartBatches(deviceCount, batchSize)
    /\ UNCHANGED <<ledger, simulator, call, last, cache, clock, files, gen>>

ScalabilityNext ==
    \/ ProcessBatch
    \/ NextBatchSize

ScalabilitySpec == ScalabilityInit /\ [][ScalabilityNext]_vars

(***************************************************************************)
(* generateProof step by step (scripts/generate-proof.js): every await is  *)
(* a point where another call may run.  All calls use the same four files  *)
(* of circuits/build.                                                      *)
(***************************************************************************)
\* The callers that may have a generateProof call in flight.
Provers == {"caller1", "caller2"}

\* The inputs of the concurrent calls: two devices, with the commitment of
\* the response or another field element.
ProverInputs ==
    [deviceId : {1, 2}, challenge : Challenges, response : Responses,
     expectedHash : Commitments]

\* A caller without a call, and a call at one of its awaits.
NotCalled ==
    [inputs |-> <<>>, success |-> FALSE,
     proof |-> [stmt |-> <<>>, pi_b |-> <<>>], publicSignals |-> <<>>,
     pc |-> "none"]
AtAwait(inputs, pc) == [NotCalled EXCEPT !.inputs = inputs, !.pc = pc]

ProverInit ==
    /\ devices = [d \in DeviceIds |-> ZeroDevice]
    /\ transactions = [d \in DeviceIds |-> <<>>]
    /\ totalDevices = 0
    /\ events = <<>>
    /\ now = 0
    /\ paused = FALSE
    /\ call = NoCall
    /\ last = NoResult
    /\ seed = <<>>
    /\ responseMap = <<>>
    /\ poseidon = FALSE
    /\ cache = <<>>
    /\ clock = 0
    /\ run = Idle
    /\ files = NoFiles
    /\ gen = [p \in Provers |-> NotCalled]

\* Everything but the files and the calls.
others == <<ledger, simulator, call, last, cache, clock, run>>

\* The call is made.
StartGenerateProof(p) ==
    /\ gen[p].pc \in {"none", "returned"}
    /\ \E inputs \in ProverInputs :
          gen' = [gen EXCEPT ![p] = AtAwait(inputs, "writeFile")]
    /\ UNCHANGED <<others, files>>

\* Lines 31-34: the inputs are written to inputPath.
WriteInputs(p) ==
    /\ gen[p].pc = "writeFile"
    /\ files' = MapSet(files, "inputPath", gen[p].inputs)
    /\ gen' = [gen EXCEPT ![p].pc = "wtns calculate"]
    /\ UNCHANGED others

\* Lines 38-39 and 56-62: snarkjs computes the witness of the inputs it
\* finds in inputPath into witnessPath, or fails on inputs that do not
\* satisfy the circuit, and the call returns the failure.
CalculateWitness(p) ==
    /\ gen[p].pc = "wtns calculate"
    /\ LET found == GenerateProof(files["inputPath"])
       IN  IF found.success
           THEN /\ files' = MapSet(files, "witnessPath", found)
                /\ gen' = [gen EXCEPT ![p].pc = "groth16 prove"]
           ELSE /\ gen' = [gen EXCEPT ![p].pc = "returned"]
                /\ UNCHANGED files
    /\ UNCHANGED others

\* Lines 43-44: snarkjs proves the witness it finds in witnessPath and
\* writes proofPath and publicPath.
Prove(p) ==
    /\ gen[p].pc = "groth16 prove"
    /\ files' = MapSet(MapSet(files, "proofPath", files["witnessPath"].proof),
                       "publicPath", files["witnessPath"].publicSignals)
    /\ gen' = [gen EXCEPT ![p].pc = "read proof"]
    /\ UNCHANGED others

\* Line 47.
ReadProof(p) ==
    /\ gen[p].pc = "read proof"
    /\ gen' = [gen EXCEPT ![p].proof = files["proofPath"],
                          ![p].pc = "read public"]
    /\ UNCHANGED <<others, files>>

\* Lines 48-55.
ReadPublicSignals(p) ==
    /\ gen[p].pc = "read public"
    /\ gen' = [gen EXCEPT ![p].publicSignals = files["publicPath"],
                          ![p].success = TRUE,
                          ![p].pc = "returned"]
    /\ UNCHANGED <<others, files>>

ProverNext ==
    \E p \in Provers :
        \/ StartGenerateProof(p)
        \/ WriteInputs(p)
        \/ CalculateWitness(p)
        \/ Prove(p)
        \/ ReadProof(p)
        \/ ReadPublicSignals(p)

ProverSpec == ProverInit /\ [][ProverNext]_vars

(***************************************************************************)
(* Properties of the registry.  A step executes the waiting call when the  *)
(* call is consumed; the call's arguments are read before the step and its *)
(* outcome after it.                                                       *)
(***************************************************************************)
Executes(op) == call.op = op /\ call' = NoCall
RegistryUnchanged == UNCHANGED <<devices, transactions, totalDevices, events>>
AuthenticationAttempt(deviceId, success) ==
    <<"AuthenticationAttempt", deviceId, success>>
TransactionRecorded(deviceId, dataHash, timestamp) ==
    <<"TransactionRecorded", deviceId, dataHash, timestamp>>
DeviceRegistered(deviceId, timestamp) ==
    <<"DeviceRegistered", deviceId, timestamp>>

\* C1: for an Active device and input[0] = deviceId, authenticate does not
\* abort whatever the verifier answers: it appends exactly one
\* AuthenticationAttempt(deviceId, success) event whose flag is the verifier's
\* answer and returns that same boolean; nothing else changes.
C1_AuthenticateReportsVerifyOutcome ==
    [][(/\ Executes("authenticate")
        /\ devices[call.deviceId].isActive
        /\ call.input[1] = call.deviceId)
       => (/\ last' = Returned("authenticate", VerifyProof(call.proof, call.input))
           /\ events' = Append(events,
                  AuthenticationAttempt(call.deviceId,
                                        VerifyProof(call.proof, call.input)))
           /\ UNCHANGED <<devices, transactions, totalDevices>>)]_vars

\* An authenticate call on an Active, correctly bound device whose proof the
\* verifier rejected: it returned false and its event says so.
C1_Witness ==
    /\ last = Returned("authenticate", FALSE)
    /\ events # <<>>
    /\ \E d \in DeviceIds :
          /\ events[Len(events)] = <<"AuthenticationAttempt", d, FALSE>>
          /\ devices[d].isActive

\* C2: recordTransaction whose proof the verifier rejects reverts and changes
\* nothing (with "Invalid proof" once the device is Active and bound); with a
\* proof the verifier accepts, on an Active and bound device, it appends
\* exactly one record to that device's log and one TransactionRecorded event.
C2_RecordTransactionHardGate ==
    [][Executes("recordTransaction")
       => LET d == call.deviceId
              bound == devices[d].isActive /\ call.input[1] = d
          IN  IF ~VerifyProof(call.proof, call.input)
              THEN /\ last'.status = "reverted"
                   /\ bound => last'.reason = "Invalid proof"
                   /\ RegistryUnchanged
                   /\ Len(transactions'[d]) = Len(transactions[d])
              ELSE bound =>
                   /\ last' = Returned("recordTransaction", TRUE)
                   /\ transactions' = [transactions EXCEPT ![d] =
                          Append(@, [deviceId |-> d, dataHash |-> call.dataHash,
                                     encryptedData |-> call.encryptedData,
                                     timestamp |-> now])]
                   /\ Len(transactions'[d]) = Len(transactions[d]) + 1
                   /\ events' = Append(events,
                          TransactionRecorded(d, call.dataHash, now))
                   /\ UNCHANGED <<devices, totalDevices>>]_vars

\* A recordTransaction call rejected for its proof alone, on a device that
\* is Active.
C2_Witness ==
    /\ last = Reverted("recordTransaction", "Invalid proof")
    /\ \E d \in DeviceIds : devices[d].isActive

\* C3: authenticate for a device that has no record or is not active reverts
\* with "Device not active", whatever proof and inputs come with it; no event
\* is emitted and no registry state changes.
C3_AuthenticateNotActive ==
    [][(Executes("authenticate") /\ ~devices[call.deviceId].isActive)
       => (/\ last' = Reverted("authenticate", "Device not active")
           /\ RegistryUnchanged)]_vars

\* An authenticate call was refused for a device without a record while
\* another device is registered.
C3_Witness ==
    /\ last = Reverted("authenticate", "Device not active")
    /\ \E d \in DeviceIds : devices[d].isActive

\* C4 as stated: authenticate with input[0] # deviceId always reverts with
\* "Device ID mismatch".
C4_Original ==
    [][(Executes("authenticate") /\ call.input[1] # call.deviceId)
       => last' = Reverted("authenticate", "Device ID mismatch")]_vars

\* C4 amended: authenticate with input[0] # deviceId always reverts, whether
\* or not the verifier would accept the proof, emits no event and changes no
\* state; the failure is "Device ID mismatch" when the device is Active and
\* "Device not active" when it is not.
C4_BindingMismatch ==
    [][(Executes("authenticate") /\ call.input[1] # call.deviceId)
       => (/\ last' = Reverted("authenticate",
                  IF devices[call.deviceId].isActive
                  THEN "Device ID mismatch" ELSE "Device not active")
           /\ RegistryUnchanged)]_vars

\* A binding mismatch was reported.
C4_Witness ==
    /\ last = Reverted("authenticate", "Device ID mismatch")
    /\ events # <<>>

\* C5 as stated: recordTransaction reverts with "Device not active" when the
\* device is not active and with "Device ID mismatch" when input[0] differs
\* from the device id.
C5_Original ==
    [][Executes("recordTransaction")
       => (/\ ~devices[call.deviceId].isActive
                => last' = Reverted("recordTransaction", "Device not active")
           /\ call.input[1] # call.deviceId
                => last' = Reverted("recordTransaction", "Device ID mismatch"))]_vars

\* C5 amended: recordTransaction checks what authenticate checks, in the same
\* order: "Device not active" when the device has no record or is not
\* active, "Device ID mismatch" when the device is Active and input[0]
\* differs from the device id; either way no record is appended, no event is
\* emitted and no registry state changes.
C5_RecordTransactionPreconditions ==
    [][Executes("recordTransaction")
       => (/\ ~devices[call.deviceId].isActive
                => (/\ last' = Reverted("recordTransaction", "Device not active")
                    /\ RegistryUnchanged)
           /\ (devices[call.deviceId].isActive /\ call.input[1] # call.deviceId)
                => (/\ last' = Reverted("recordTransaction", "Device ID mismatch")
                    /\ RegistryUnchanged))]_vars

\* A recordTransaction call was refused for its binding.
C5_Witness ==
    /\ last = Reverted("recordTransaction", "Device ID mismatch")
    /\ \A d \in DeviceIds : transactions[d] = <<>>

\* C6 as stated: registerDevice for a device id that already has a record
\* reverts with "Device already registered" and leaves the device records,
\* every transaction log, totalDevices and the event log as they were.
C6_Original ==
    [][(Executes("registerDevice") /\ devices[call.deviceId] # ZeroDevice)
       => (/\ last' = Reverted("registerDevice", "Device already registered")
           /\ RegistryUnchanged)]_vars

\* C7 as stated: registerDevice with a zero device id or a zero public key
\* hash reverts with one of the invalid-argument reasons and changes nothing.
C7_Original ==
    [][(Executes("registerDevice") /\ (call.deviceId = 0 \/ call.pubKeyHash = 0))
       => (/\ last'.status = "reverted"
           /\ last'.reason \in {"Invalid device ID", "Invalid public key hash"}
           /\ RegistryUnchanged)]_vars

\* C7 amended: registerDevice with a zero device id or a zero public key hash
\* always reverts, creates no record, leaves totalDevices unchanged and emits
\* no event; the failure is "Device already registered" when the id is
\* already registered (that check comes first) and the invalid-argument
\* failure otherwise; the zero device id is never registered.
C7_RegisterZeroArgument ==
    /\ [][(Executes("registerDevice") /\ (call.deviceId = 0 \/ call.pubKeyHash = 0))
          => (/\ last' = Reverted("registerDevice",
                     IF isDeviceRegistered(call.deviceId)
                     THEN "Device already registered"
                     ELSE IF call.deviceId = 0
                     THEN "Invalid device ID"
                     ELSE "Invalid public key hash")
              /\ RegistryUnchanged)]_vars
    /\ [](devices[0] = ZeroDevice /\ ~isDeviceRegistered(0))

\* A registerDevice call was refused for its zero public key hash while a
\* device is registered.
C7_Witness ==
    /\ last = Reverted("registerDevice", "Invalid public key hash")
    /\ totalDevices = 1
    /\ \E d \in DeviceIds : isDeviceRegistered(d)

\* C8 as stated: a registerDevice call that succeeds leaves the device
\* registered and active, with the given pubKeyHash and helperData, owner the
\* caller and registeredAt the ledger timestamp; totalDevices grows by one,
\* one DeviceRegistered event is appended, and the other device records and
\* all transaction logs stay as they were.
C8_Original ==
    [][(Executes("registerDevice") /\ last'.status = "ok")
       => LET d == call.deviceId
          IN  /\ devices'[d].registeredAt # 0
              /\ devices'[d].isActive
              /\ devices'[d] =
                     [deviceId |-> d, pubKeyHash |-> call.pubKeyHash,
                      helperData |-> call.helperData, registeredAt |-> now,
                      isActive |-> TRUE, owner |-> call.sender]
              /\ \A e \in DeviceIds \ {d} : devices'[e] = devices[e]
              /\ totalDevices' = totalDevices + 1
              /\ events' = Append(events, DeviceRegistered(d, now))
              /\ UNCHANGED transactions]_vars

\* The call carries an honestly built statement for its device: some response
\* r to a challenge c, the commitment Poseidon(r, c), the proof generateProof
\* returns for them, and the public inputs [deviceId, c, commitment].
HonestCall(c, r) ==
    LET commitment == Poseidon(r, c)
        issued == GenerateProof([deviceId |-> call.deviceId, challenge |-> c,
                                 response |-> r, expectedHash |-> commitment])
    IN  /\ call.input = <<call.deviceId, c, commitment>>
        /\ call.proof = proofForContract(issued.proof)

\* C9 as stated: for an Active device and an honestly built statement, proof
\* generation succeeds, the verifier accepts the proof for
\* [deviceId, challenge, commitment], and authenticate returns true and
\* appends AuthenticationAttempt(deviceId, true).
C9_Original ==
    [][\A c \in Challenges, r \in Responses :
         (/\ Executes("authenticate")
          /\ devices[call.deviceId].isActive
          /\ HonestCall(c, r))
         => (/\ call.proof # ForgedProof
             /\ VerifyProof(call.proof, call.input)
             /\ last' = Returned("authenticate", TRUE)
             /\ events' = Append(events,
                    AuthenticationAttempt(call.deviceId, TRUE)))]_vars

\* C10 as stated: a device record, once written, keeps its deviceId,
\* pubKeyHash, helperData, registeredAt and owner in every later step, and is
\* never deleted.
C10_Original ==
    [][\A d \in DeviceIds :
         devices[d] # ZeroDevice
         => (/\ devices'[d] # ZeroDevice
             /\ devices'[d].deviceId = devices[d].deviceId
             /\ devices'[d].pubKeyHash = devices[d].pubKeyHash
             /\ devices'[d].helperData = devices[d].helperData
             /\ devices'[d].registeredAt = devices[d].registeredAt
             /\ devices'[d].owner = devices[d].owner)]_vars

\* s is a prefix of t.
IsPrefix(s, t) == Len(s) <= Len(t) /\ SubSeq(t, 1, Len(s)) = s

DeviceState(d) ==
    IF devices[d] = ZeroDevice THEN "Unregistered"
    ELSE IF devices[d].isActive THEN "Active"
    ELSE "Deactivated"

\* C12: a device changes its lifecycle state only from Unregistered to Active
\* or from Active to Deactivated: it never returns to Unregistered, and never
\* goes from Deactivated back to Active.
C12_DeviceLifecycle ==
    [][\A d \in DeviceIds :
         \/ DeviceState(d)' = DeviceState(d)
         \/ DeviceState(d) = "Unregistered" /\ DeviceState(d)' = "Active"
         \/ DeviceState(d) = "Active" /\ DeviceState(d)' = "Deactivated"]_vars

\* A device became Active and a later call on the registry was executed.
C12_Witness ==
    /\ \E d \in DeviceIds : DeviceState(d) = "Active"
    /\ \E d \in DeviceIds : DeviceState(d) = "Unregistered"
    /\ Len(events) = MaxEvents
    /\ last.op = "authenticate"

\* C13 as stated: the registry offers a deactivate(deviceId) operation:
\* whenever the ledger accepts a call, a deactivate call for any Active
\* device can be sent to the registry; executed on an Active device it
\* clears isActive and appends DeviceDeactivated, executed on any other
\* device it reverts with "Device not active" and changes nothing.
C13_Original ==
    /\ (call = NoCall /\ Len(events) < MaxEvents)
         => \A d \in DeviceIds :
              devices[d].isActive
                => ENABLED (Next /\ call'.op = "deactivate" /\ call'.deviceId = d)
    /\ call.op = "deactivate"
         => ENABLED (/\ Next
                     /\ call' = NoCall
                     /\ IF devices[call.deviceId].isActive
                        THEN /\ ~devices'[call.deviceId].isActive
                             /\ events' = Append(events,
                                    <<"DeviceDeactivated", call.deviceId, now>>)
                        ELSE /\ last' = Reverted("deactivate", "Device not active")
                             /\ RegistryUnchanged)

\* C14: the queries isDeviceRegistered, isDeviceActive and
\* getTransactionCount never fail and change no device record, transaction
\* log, counter or event; each returns the value read from storage, which for
\* an id that was never registered is false, false and 0.
C14_QueriesReadOnly ==
    [][\A q \in QueryOps :
         Executes(q)
         => LET d == call.deviceId
            IN  /\ RegistryUnchanged
                /\ last'.op = q
                /\ last'.status = "ok"
                /\ q = "isDeviceRegistered"
                     => /\ last'.ret = (devices[d].registeredAt # 0)
                        /\ devices[d] = ZeroDevice => last'.ret = FALSE
                /\ q = "isDeviceActive"
                     => /\ last'.ret = devices[d].isActive
                        /\ devices[d] = ZeroDevice => last'.ret = FALSE
                /\ q = "getTransactionCount"
                     => /\ last'.ret = Len(transactions[d])
                        /\ devices[d] = ZeroDevice => last'.ret = 0]_vars

\* getTransactionCount answered 0 for an id that was never registered, in a
\* registry that holds a device.
C14_Witness ==
    /\ last = Returned("getTransactionCount", 0)
    /\ totalDevices = 1
    /\ \E d \in DeviceIds : devices[d] = ZeroDevice /\ d # 0

(***************************************************************************)
(* Properties of the prover, the off-chain verification and the PUF        *)
(* simulator.                                                              *)
(***************************************************************************)
\* C15: every successful proof issuance returns public signals that are
\* exactly [deviceId, challenge, expectedHash] of its own inputs, in that
\* order.
C15_Original ==
    [][(Executes("generateProof") /\ last'.ret.success)
       => last'.ret.publicSignals =
              <<call.inputs.deviceId, call.inputs.challenge,
                call.inputs.expectedHash>>]_vars

C17_Original ==
    [][(Executes("generateProof") /\ last'.ret.success)
       => (/\ Poseidon(call.inputs.response, call.inputs.challenge)
                 = call.inputs.expectedHash
           /\ Num2Bits(RangeBits, call.inputs.response))]_vars

\* C18: the expectedHash that generateExpectedHash and generateCircuitInput
\* return is Poseidon([response, challenge]) of the device's response to the
\* challenge, the very constraint of the circuit, so the prover accepts it;
\* it depends on the seed, the device and the challenge alone.
C18_CommitmentIsCircuitHash ==
    [][/\ (Executes("generateExpectedHash") /\ last'.status = "ok")
          => LET response == Sha256(seed \o Key(call.deviceId, call.challenge))
                                 % FieldP
             IN  /\ BigInt(last'.ret) = Poseidon(response, call.challenge)
                 /\ GenerateProof([deviceId |-> call.deviceId,
                                   challenge |-> call.challenge,
                                   response |-> response,
                                   expectedHash |-> BigInt(last'.ret)]).success
       /\ (Executes("generateCircuitInput") /\ last'.status = "ok")
          => LET i == ParseInputs(last'.ret)
             IN  /\ i.deviceId = call.deviceId
                 /\ i.response = Sha256(seed \o Key(i.deviceId, i.challenge))
                                     % FieldP
                 /\ i.expectedHash = Poseidon(i.response, i.challenge)
                 /\ GenerateProof(i).success]_vars

\* generateCircuitInput returned inputs whose response and challenge differ,
\* so that the order of the hash's inputs shows.
C18_Witness ==
    /\ last.op = "generateCircuitInput"
    /\ last.status = "ok"
    /\ last.ret.response # last.ret.challenge
    /\ Poseidon(BigInt(last.ret.challenge), BigInt(last.ret.response))
           # BigInt(last.ret.expectedHash)

\* C19: generateResponse returns the same value on every call for one
\* (deviceId, challenge) pair, the digest of seed and pair reduced into the
\* field, whether the memo map serves it or it is computed, and whatever
\* other pairs the map holds.
C19_ResponseDeterministic ==
    [][Executes("generateResponse")
       => last'.ret = Sha256(seed \o Key(call.deviceId, call.challenge))
                          % FieldP]_vars

\* generateResponse is called again for a pair the memo map already holds,
\* after a call for another pair.
C19_Witness ==
    /\ call.op = "generateResponse"
    /\ Key(call.deviceId, call.challenge) \in DOMAIN responseMap
    /\ \E k \in DOMAIN responseMap : k # Key(call.deviceId, call.challenge)

\* C20: every value generateChallenge returns is a non-negative integer
\* strictly less than the field modulus.
C20_ChallengeInField ==
    [][Executes("generateChallenge")
       => (last'.ret \in Nat /\ last'.ret < FieldP)]_vars

\* generateChallenge returned the largest value its random bytes encode.
C20_Witness ==
    /\ last = Returned("generateChallenge", 2^ChallengeBytes - 1)
    /\ call = NoCall

(***************************************************************************)
(* Properties of the noise injector.                                       *)
(***************************************************************************)
\* The number of binary digits of a value as toString(2) writes it, and the
\* number of digit positions in which two values differ.
bitLength(n) == Len(toBinaryString(n))
Hamming(a, b) ==
    Cardinality({k \in 0..(NoiseBits - 1) :
                    (a \div 2^k) % 2 # (b \div 2^k) % 2})

\* C21: with noise level 0 addNoiseToResponse returns the response it was
\* given, the response 0 included; the string variant returns a string that
\* denotes the same response.
C21_NoNoiseIsIdentity ==
    [][/\ (Executes("addNoiseToResponse") /\ call.noiseLevel = 0)
          => last'.ret = call.response
       /\ (Executes("addNoiseToResponseHex") /\ call.noiseLevel = 0)
          => BigIntOfHex(last'.ret) = BigIntOfHex(call.response)]_vars

\* addNoiseToResponse returned for the response 0 at noise level 0.
C21_Witness ==
    /\ last = Returned("addNoiseToResponse", 0)
    /\ call = NoCall

\* C29: addNoiseToResponse performs floor(bitLength * noiseLevel) flips of
\* digits of the response: the result has no more digits than the response,
\* differs from it in at most that many positions, in a number of positions
\* of the same parity, and at noise level 1 the number of flips is the
\* number of digits.
C29_NoiseFlips ==
    [][Executes("addNoiseToResponse")
       => LET length == bitLength(call.response)
              flips == (length * call.noiseLevel) \div NoiseScale
              distance == Hamming(last'.ret, call.response)
          IN  /\ last'.ret \in Nat
              /\ bitLength(last'.ret) <= length
              /\ distance <= flips
              /\ distance % 2 = flips % 2
              /\ call.noiseLevel = NoiseScale => flips = length]_vars

\* A response of full width came back two digits shorter: its leading
\* digits were flipped.
C29_Witness ==
    /\ last.op = "addNoiseToResponse"
    /\ call = NoCall
    /\ last.ret # 0
    /\ bitLength(last.ret) = NoiseBits - 2

(***************************************************************************)
(* Properties of the proof cache.                                          *)
(***************************************************************************)
\* C22: get returns the stored entry exactly when its age is at most the
\* timeout, the age that equals the timeout included; when the age exceeds
\* the timeout it returns null and removes the entry, and for a key without
\* an entry it returns null, so an entry older than the timeout is never
\* returned and stays absent until the next set.
C22_GetExpires ==
    [][Executes("get")
       => LET key == getKey(call.deviceId, call.challenge)
          IN  /\ IF key \notin DOMAIN cache
                 THEN last'.ret = <<>> /\ cache' = cache
                 ELSE IF clock - cache[key].timestamp <= Timeout
                 THEN last'.ret = <<cache[key]>> /\ cache' = cache
                 ELSE /\ last'.ret = <<>>
                      /\ cache' = MapDelete(cache, key)
              /\ last'.ret # <<>>
                    => clock - last'.ret[1].timestamp <= Timeout]_vars

\* get returned an entry whose age is exactly the timeout.
C22_Witness ==
    /\ last.op = "get"
    /\ call = NoCall
    /\ last.ret # <<>>
    /\ clock - last.ret[1].timestamp = Timeout

\* C23: set writes the entry of its key, whether the key had one or not:
\* the proof and the public signals it was given, stamped with the current
\* time; no other step changes an entry, and a get within the timeout of
\* that stamp returns it.
C23_SetReplaces ==
    [][/\ Executes("set")
          => /\ cache' = [k \in DOMAIN cache
                                  \cup {getKey(call.deviceId, call.challenge)} |->
                             IF k = getKey(call.deviceId, call.challenge)
                             THEN [proof |-> call.proof,
                                   publicSignals |-> call.publicSignals,
                                   timestamp |-> clock]
                             ELSE cache[k]]
             /\ last'.status = "ok"
       /\ ~Executes("set")
          => \A k \in DOMAIN cache \cap DOMAIN cache' : cache'[k] = cache[k]
       /\ (/\ Executes("get")
           /\ getKey(call.deviceId, call.challenge) \in DOMAIN cache
           /\ clock - cache[getKey(call.deviceId, call.challenge)].timestamp
                 <= Timeout)
          => last'.ret = <<cache[getKey(call.deviceId, call.challenge)]>>]_vars

\* get returned an entry stamped after the first reading of the clock, at a
\* time when an entry set at the first reading has expired.
C23_Witness ==
    /\ last.op = "get"
    /\ call = NoCall
    /\ last.ret # <<>>
    /\ last.ret[1].timestamp > 0
    /\ clock > Timeout

(***************************************************************************)
(* Properties of the experiment loop and its use of the cache.             *)
(***************************************************************************)
\* What generateProof returns, when it succeeds, for a request with this
\* device id and challenge, whatever the response and its noise.
GeneratedFor(deviceId, challenge) ==
    {GenerateProof(ExperimentInputs(deviceId, challenge, HexOfBytes(r))) :
         r \in NoisyResponses}

\* C24 as stated: the cache is advisory.  An iteration that was served from
\* the cache and whose registration went through goes on as the iteration
\* without a cache does, which generates the proof of its request: with a
\* proof and public signals that generateProof returns for its device id and
\* challenge, to the authentication.
C24_Original ==
    [][(/\ run.op = "experiment" /\ run.stage = "register"
        /\ run'.stage # "register"
        /\ run.hit
        /\ last'.status = "ok")
       => (/\ \E g \in GeneratedFor(run.deviceId, HexOfBytes(1)) :
                 /\ g.success
                 /\ run.proof = g.proof
                 /\ run.publicSignals = g.publicSignals
           /\ run'.stage = "authenticate")]_vars

\* C25 as stated: every entry of the cache holds the proof and the public
\* signals of a generation that succeeded; a generation that failed left no
\* entry.
C25_Original ==
    \A k \in DOMAIN cache :
        /\ cache[k].proof # generateProofFailed.proof
        /\ cache[k].publicSignals # generateProofFailed.publicSignals

(***************************************************************************)
(* Properties of concurrent proof generation.                              *)
(***************************************************************************)
\* C26 as stated: whatever the interleaving of two generateProof calls, a
\* call that succeeds returns the proof and the public signals computed
\* from its own inputs; its publicSignals[0] is its own deviceId.
C26_Original ==
    \A p \in Provers :
        (gen[p].pc = "returned" /\ gen[p].success)
        => /\ gen[p].publicSignals[1] = gen[p].inputs.deviceId
           /\ gen[p].publicSignals = GenerateProof(gen[p].inputs).publicSignals
           /\ gen[p].proof = GenerateProof(gen[p].inputs).proof

(***************************************************************************)
(* Properties of the registry under concurrent callers.                    *)
(***************************************************************************)
\* C27 as stated: registrations are serialized and atomic.  Of the register
\* calls for one device id exactly one succeeds: a registration that
\* succeeds is the first for its id, adds exactly 1 to totalDevices and
\* appends exactly one DeviceRegistered event; and every state shows a
\* device record either unwritten or complete.
C27_Original ==
    [][/\ (Executes("registerDevice") /\ last'.status = "ok")
          => /\ \A i \in DOMAIN events :
                    ~(events[i][1] = "DeviceRegistered"
                      /\ events[i][2] = call.deviceId)
             /\ totalDevices' = totalDevices + 1
             /\ events' = Append(events, DeviceRegistered(call.deviceId, now))
       /\ \A d \in DeviceIds :
             \/ devices'[d] = ZeroDevice
             \/ /\ devices'[d].deviceId = d
                /\ devices'[d].pubKeyHash # 0
                /\ devices'[d].isActive
                /\ devices'[d].owner \in Accounts]_vars

\* The device ids a proof may have been issued for: every id, inside the
\* field or beyond it, for which generateProof returns that proof.
IssuedFor(proof) ==
    {deviceId \in 0..(2 * FieldP - 1) :
        \E c \in Challenges, r \in Responses, h \in Commitments :
            LET g == GenerateProof([deviceId |-> deviceId, challenge |-> c,
                                    response |-> r, expectedHash |-> h])
            IN  g.success /\ proofForContract(g.proof) = proof}

\* C30 as stated: an authentication that succeeds for a device and a
\* transaction recorded for a device happen only in a call whose proof was
\* issued for that device and for no other.
C30_Original ==
    [][(\/ (Executes("authenticate") /\ last' = Returned("authenticate", TRUE))
        \/ (Executes("recordTransaction")
              /\ last' = Returned("recordTransaction", TRUE)))
       => IssuedFor(call.proof) = {call.deviceId}]_vars

\* C28 as stated: AuthenticationService.authenticate returns success = true
\* only when the registry's verify outcome for the call it sent was true.
C28_Original ==
    [][(ServiceAuthenticate /\ run'.success)
       => last' = Returned("authenticate", TRUE)]_vars

(***************************************************************************)
(* Properties of the registry as a whole.                                  *)
(***************************************************************************)
\* C31 as stated: authenticate returns true for a device only when the
\* commitment in the public inputs is the commitment to the response of that
\* device's own PUF to the challenge in the public inputs.
C31_Original ==
    [][(Executes("authenticate") /\ last' = Returned("authenticate", TRUE))
       => call.input[3] =
              Poseidon(generateResponse(responseMap, call.deviceId,
                                        call.input[2]).ret,
                       call.input[2])]_vars

\* C32: verification consumes nothing.  Once the registry has accepted a
\* call that carries a proof and its public inputs, every later authenticate
\* with the same proof and inputs returns true while the device is Active,
\* and every later recordTransaction with them succeeds and appends one
\* record: after n successful recordTransaction calls the log holds n records.
C32_VerificationConsumesNothing ==
    /\ [][(run.accepted > 0 /\ devices[run.deviceId].isActive)
          => /\ ReplayAuthenticate => last' = Returned("authenticate", TRUE)
             /\ ReplayRecordTransaction
                  => /\ last' = Returned("recordTransaction", TRUE)
                     /\ Len(transactions'[run.deviceId])
                          = Len(transactions[run.deviceId]) + 1]_vars
    /\ [](Len(transactions[run.deviceId]) = run.recorded)

\* The same proof was accepted MaxRuns times, and stored a record twice.
C32_Witness ==
    /\ run.accepted = MaxRuns
    /\ run.recorded >= 2
    /\ Len(transactions[run.deviceId]) = run.recorded

\* C33: the registry has no reachable deactivation.  A device that is
\* active, or that a successful registerDevice has just registered, is
\* active after every step, and the event log never holds a
\* DeviceDeactivated event.
C33_NoDeactivation ==
    /\ [][\A d \in DeviceIds :
            (\/ isDeviceActive(d)
             \/ (/\ Executes("registerDevice")
                 /\ call.deviceId = d
                 /\ last'.status = "ok"))
            => isDeviceActive(d)']_vars
    /\ [](\A i \in DOMAIN events : events[i][1] # "DeviceDeactivated")

\* A registered device went through an authentication the verifier rejected
\* and is still active.
C33_Witness ==
    /\ last = Returned("authenticate", FALSE)
    /\ Len(events) = MaxEvents
    /\ \E d \in DeviceIds :
          /\ events[1] = DeviceRegistered(d, 0)
          /\ events[MaxEvents] = AuthenticationAttempt(d, FALSE)
          /\ isDeviceActive(d)

\* C34 as stated: in every state totalDevices is the number of device ids
\* that have a record and the number of DeviceRegistered events emitted so
\* far; the counter never decreases and changes only in a successful
\* registerDevice.
C34_Original ==
    /\ [](/\ totalDevices = Cardinality({d \in DeviceIds : devices[d] # ZeroDevice})
          /\ totalDevices = Cardinality({i \in DOMAIN events :
                                            events[i][1] = "DeviceRegistered"}))
    /\ [][/\ totalDevices' >= totalDevices
          /\ totalDevices' # totalDevices
               => (Executes("registerDevice") /\ last'.status = "ok")]_vars

\* C35 as stated: in every state, whatever timestamps the ledger assigned
\* (0 included), a device that isDeviceActive reports is one that
\* isDeviceRegistered reports, and isDeviceRegistered is true exactly for the
\* device ids on which a registerDevice call has succeeded.
C35_Original ==
    \A d \in DeviceIds :
        /\ isDeviceActive(d) => isDeviceRegistered(d)
        /\ isDeviceRegistered(d)
             <=> \E i \in DOMAIN events :
                    /\ events[i][1] = "DeviceRegistered"
                    /\ events[i][2] = d

\* C36 as stated: every stored transaction record is well formed with
\* respect to its device.  Each record in the log of a device id carries
\* that id; a log is non-empty only for a device that has a record; the
\* timestamps along a log never decrease; and no record is older than the
\* registeredAt of its device.
C36_Original ==
    \A d \in DeviceIds :
        LET log == transactions[d]
        IN  /\ \A i \in DOMAIN log : log[i].deviceId = d
            /\ getTransactionCount(d) > 0 => devices[d] # ZeroDevice
            /\ \A i, j \in DOMAIN log :
                  i <= j => log[i].timestamp <= log[j].timestamp
            /\ \A i \in DOMAIN log : log[i].timestamp >= devices[d].registeredAt

\* C37: authenticate and recordTransaction evaluate their guards in the
\* order not-active, binding mismatch, verify.  A call for a device that is
\* not active fails with "Device not active" even when input[0] differs from
\* the device id; a call for an active device with a mismatch fails with
\* "Device ID mismatch"; and a call that fails on either precondition shows
\* nothing of the verifier: whatever the proof, it is never refused as
\* "Invalid proof", emits no AuthenticationAttempt and changes nothing.
C37_GuardOrder ==
    [][\A op \in {"authenticate", "recordTransaction"} :
         Executes(op)
         => LET active == devices[call.deviceId].isActive
                bound == call.input[1] = call.deviceId
            IN  /\ ~active
                     => last' = Reverted(op, "Device not active")
                /\ (active /\ ~bound)
                     => last' = Reverted(op, "Device ID mismatch")
                /\ ~(active /\ bound)
                     => (/\ last'.reason # "Invalid proof"
                         /\ events' = events
                         /\ RegistryUnchanged)]_vars

\* A recordTransaction call was refused because its device is not active,
\* in a registry that holds one device and no transaction.
C37_Witness ==
    /\ last = Reverted("recordTransaction", "Device not active")
    /\ totalDevices = 1
    /\ Len(events) = 1
    /\ \A d \in DeviceIds : getTransactionCount(d) = 0

\* C38: the registry is never paused.  The paused flag is false in every
\* state, and whenNotPaused never rejects a registerDevice, authenticate or
\* recordTransaction call.
C38_NeverPaused ==
    /\ [](~paused)
    /\ [][\A op \in {"registerDevice", "authenticate", "recordTransaction"} :
            Executes(op) => last'.reason # "Pausable: paused"]_vars

\* A registerDevice call and then a recordTransaction call went past
\* whenNotPaused and succeeded.
C38_Witness ==
    /\ ~paused
    /\ Len(events) = MaxEvents
    /\ events[1][1] = "DeviceRegistered"
    /\ events[MaxEvents][1] = "TransactionRecorded"
    /\ last = Returned("recordTransaction", TRUE)

(***************************************************************************)
(* Properties of the proof cache across keys.                              *)
(***************************************************************************)
\* C39: cache operations on different keys are independent.  Two distinct
\* (deviceId, challenge) pairs have distinct keys, and a set or a get for one
\* pair, the get that evicts an expired entry included, leaves what get
\* returns for every other pair as it was.
C39_KeysIndependent ==
    [][\A d \in CacheDeviceIds, c \in CacheChallenges :
         (/\ Executes("set") \/ Executes("get")
          /\ <<d, c>> # <<call.deviceId, call.challenge>>)
         => /\ getKey(d, c) # getKey(call.deviceId, call.challenge)
            /\ ProofCacheGet(cache', d, c).ret = ProofCacheGet(cache, d, c).ret
            /\ (getKey(d, c) \in DOMAIN cache')
                 <=> (getKey(d, c) \in DOMAIN cache)]_vars

\* A get for one pair found nothing or evicted its entry, and the entry of
\* the other pair, although expired as well, is still in the map.
C39_Witness ==
    /\ last = Returned("get", <<>>)
    /\ clock = MaxClock
    /\ DOMAIN cache = {getKey(HexOfBytes(2), HexOfBytes(1))}
    /\ clock - cache[getKey(HexOfBytes(2), HexOfBytes(1))].timestamp > Timeout

(***************************************************************************)
(* Properties of the scalability run.                                      *)
(***************************************************************************)
\* C40 as stated: the AverageProofTime and AverageVerifyTime written for a
\* batch are the mean proof time and the mean verify time of the devices
\* that succeeded in that batch, and 0 when none succeeded, for the first
\* batch and for every batch after it.
C40_Original ==
    (run.op = "scalability" /\ run.batchNumber > 0)
    => LET ok == successfulResults(run.results)
           SameNumber(a, b) == a[1] * b[2] = b[1] * a[2]
       IN  IF ok = <<>>
           THEN /\ SameNumber(run.row.AverageProofTime, Zero)
                /\ SameNumber(run.row.AverageVerifyTime, Zero)
           ELSE /\ SameNumber(run.row.AverageProofTime,
                              Quotient(sumProofTime(ok), Len(ok)))
                /\ SameNumber(run.row.AverageVerifyTime,
                              Quotient(sumVerifyTime(ok), Len(ok)))

====
